---- MODULE Spec2Model ----
(***************************************************************************)
(* EventHub ticket-processing engine: the LangGraph workflow of            *)
(* agentic/workflow (classifier -> tool_caller -> resolver -> router ->    *)
(* escalate | respond), the agents it calls (agentic/agents) and the       *)
(* persistence step of run_ticket.                                         *)
(*                                                                         *)
(* Representation.                                                         *)
(*   - A Python str that the code inspects (response text, reasons,        *)
(*     messages, summaries) is a sequence of words; "" is <<>>.  Substring *)
(*     tests are contiguous-subsequence tests on words.                    *)
(*   - A Python value stored in tool_results is a record                   *)
(*     [type |-> "list" | "dict" | "str" | "bool", v |-> payload].         *)
(*   - A Python dict is a function from its keys; dict.get is Get.         *)
(*   - A float in [0,1] with three decimals (rag_tools.py:120) is an       *)
(*     integer number of thousandths.                                      *)
(*   - None is the string NoneVal.                                         *)
(***************************************************************************)
EXTENDS Integers, Sequences, FiniteSets, TLC

VARIABLES
    pc,            \* position of run_ticket / the graph
    ticket,        \* arguments of run_ticket
    state,         \* TicketState threaded through the nodes
    output,        \* dict built and returned by run_ticket
    calls,         \* number of invocations of each external operation
    trace,         \* stages entered so far, in order
    failed,        \* external operations whose call failed in this run
    tickets_table, \* rows of the tickets table (ticket_id PRIMARY KEY), oldest first
    rule_in,       \* arguments of a direct call of _should_escalate
    rule_out,      \* its return value
    classify_in,   \* arguments of a direct call of classify and the model's reply
    classify_out,  \* its return value
    priority_in,   \* arguments of a direct call of _calculate_priority
    priority_out,  \* its return value
    save_calls,    \* two callers of create_support_ticket: position, arguments, result
    handles,       \* module globals _classifier, _resolver, _escalation_agent
    runs           \* two concurrent invocations of run_ticket

vars == <<pc, ticket, state, output, calls, trace, failed, tickets_table,
          rule_in, rule_out, classify_in, classify_out, priority_in, priority_out,
          save_calls, handles, runs>>

pipeline_vars == <<pc, ticket, state, output, calls, trace, failed, tickets_table>>
rule_vars == <<rule_in, rule_out>>
classify_vars == <<classify_in, classify_out>>
priority_vars == <<priority_in, priority_out>>
pair_vars == <<handles, runs>>
direct_vars == <<rule_in, rule_out, classify_in, classify_out, priority_in, priority_out,
                 save_calls, handles, runs>>

----------------------------------------------------------------------------
(* Bounds of the model *)

\* number of further chunks of surrounding commentary a model reply may carry
MaxCommentary == 1

\* number of knowledge-base matches the search may return (top_k = 3 caps it)
MaxMatches == 1

----------------------------------------------------------------------------
(* Python values *)

NoneVal == "<None>"

EmptyDict == [k \in {} |-> NoneVal]

EmptyText == <<>>

PyList(s) == [type |-> "list", v |-> s]
PyDict(d) == [type |-> "dict", v |-> d]
PyStr(t) == [type |-> "str", v |-> t]
PyBool(b) == [type |-> "bool", v |-> b]

\* dict.get(key, default)
Get(d, k, default) == IF k \in DOMAIN d THEN d[k] ELSE default

\* d[k] = val on a dict, and {**d, **u}
Put(d, k, val) == [x \in DOMAIN d \cup {k} |-> IF x = k THEN val ELSE d[x]]
Merge(d, u) == [x \in DOMAIN d \cup DOMAIN u |-> IF x \in DOMAIN u THEN u[x] ELSE d[x]]

\* truth value of a tool_results entry (bool(value))
Truthy(val) ==
    CASE val.type = "list" -> Len(val.v) > 0
      [] val.type = "dict" -> DOMAIN val.v # {}
      [] val.type = "str"  -> Len(val.v) > 0
      [] val.type = "bool" -> val.v

\* str.lower() on one word
LowerWord(w) ==
    CASE w = "Refund" -> "refund"
      [] w = "OFF_TOPIC" -> "off_topic"
      [] w = "Let" -> "let"
      [] w = "Me" -> "me"
      [] w = "Connect" -> "connect"
      [] w = "You" -> "you"
      [] w = "I" -> "i"
      [] w = "Low" -> "low"
      [] w = "Confidence" -> "confidence"
      [] w = "Critical" -> "critical"
      [] w = "KB" -> "kb"
      [] w = "Complaints" -> "complaints"
      [] w = "No" -> "no"
      [] w = "Response" -> "response"
      [] w = "Tool" -> "tool"
      [] w = "Resolution" -> "resolution"
      [] w = "Error" -> "error"
      [] w = "ERROR" -> "error"
      [] w = "Your" -> "your"
      [] w = "User" -> "user"
      [] w = "Reservation" -> "reservation"
      [] w = "Unable" -> "unable"
      [] w = "We" -> "we"
      [] OTHER -> w

\* str.lower()
Lower(t) == [i \in 1..Len(t) |-> LowerWord(t[i])]

\* marker in text
Contains(t, marker) ==
    \E i \in 0..(Len(t) - Len(marker)) :
        \A j \in 1..Len(marker) : t[i + j] = marker[j]

\* text[:n], counted in words
Prefix(t, n) == SubSeq(t, 1, IF Len(t) < n THEN Len(t) ELSE n)

\* str.strip(): leading and trailing whitespace words removed
RECURSIVE LStrip(_)
LStrip(t) == IF t # <<>> /\ Head(t) = " " THEN LStrip(Tail(t)) ELSE t

RECURSIVE RStrip(_)
RStrip(t) == IF t # <<>> /\ t[Len(t)] = " " THEN RStrip(SubSeq(t, 1, Len(t) - 1)) ELSE t

Strip(t) == RStrip(LStrip(t))

\* decimal digits of a natural number
DigitStr(d) ==
    CASE d = 0 -> "0" [] d = 1 -> "1" [] d = 2 -> "2" [] d = 3 -> "3" [] d = 4 -> "4"
      [] d = 5 -> "5" [] d = 6 -> "6" [] d = 7 -> "7" [] d = 8 -> "8" [] d = 9 -> "9"

RECURSIVE NatStr(_)
NatStr(n) == IF n < 10 THEN DigitStr(n) ELSE NatStr(n \div 10) \o DigitStr(n % 10)

\* f"{x:.1%}" for x given in thousandths
FormatPercent1(x) == NatStr(x \div 10) \o "." \o DigitStr(x % 10) \o "%"

----------------------------------------------------------------------------
(* Classification Stage: agents/classifier.py *)

\* keys of TICKET_CATEGORIES
TICKET_CATEGORIES ==
    {"refund", "cancellation", "general", "technical", "complaint", "off_topic"}

TICKET_URGENCY == {"low", "medium", "high", "critical"}

TICKET_SENTIMENT == {"positive", "neutral", "negative"}

\* A model reply is a sequence of chunks: commentary, an opening brace, the
\* members of a JSON object, a closing brace, or a complete JSON array.
Chunk(c) == [c |-> c]
BodyChunk(obj) == [c |-> "body", obj |-> obj]

\* str.find("{") and str.rfind("}"), 0-based, -1 when absent
Find(t, c) ==
    IF \E i \in 1..Len(t) : t[i].c = c
    THEN (CHOOSE i \in 1..Len(t) : t[i].c = c /\ \A j \in 1..(i - 1) : t[j].c # c) - 1
    ELSE -1

RFind(t, c) ==
    IF \E i \in 1..Len(t) : t[i].c = c
    THEN (CHOOSE i \in 1..Len(t) : t[i].c = c /\ \A j \in (i + 1)..Len(t) : t[j].c # c) - 1
    ELSE -1

\* json.loads: an object, an array, or JSONDecodeError
json_loads(t) ==
    IF Len(t) = 3 /\ t[1].c = "{" /\ t[2].c = "body" /\ t[3].c = "}"
    THEN [raised |-> FALSE, value |-> PyDict(t[2].obj)]
    ELSE IF Len(t) = 1 /\ t[1].c = "[]"
    THEN [raised |-> FALSE, value |-> PyList(<<>>)]
    ELSE [raised |-> TRUE, error |-> <<"Expecting", "value">>]

_parse_response(response_text) ==
    LET start_idx == Find(response_text, "{")
        end_idx == RFind(response_text, "}") + 1
        loaded == IF start_idx # -1 /\ end_idx > start_idx
                  THEN json_loads(SubSeq(response_text, start_idx + 1, end_idx))
                  ELSE json_loads(response_text)
    IN  IF loaded.raised
        THEN [raised |-> TRUE,
              error |-> <<"Failed", "to", "parse", "JSON", "response:">> \o loaded.error]
        ELSE loaded

\* an except branch of classify that labels the ticket with no category
classify_error_unlabelled(error) ==
    [category |-> "unknown",
     urgency |-> "medium",
     sentiment |-> "neutral",
     summary |-> <<"Classification", "error:">> \o error,
     error |-> error]

\* the except branch of classify
classify_error(error) ==
    [category |-> "general",
     urgency |-> "medium",
     sentiment |-> "neutral",
     summary |-> <<"Classification", "error:">> \o error,
     error |-> error]

\* classify passing the replied category through without validating it
classify_unvalidated(subject, description, reply) ==
    IF reply.raised THEN classify_error(reply.error)
    ELSE LET parsed == _parse_response(reply.content) IN
      IF parsed.raised THEN classify_error(parsed.error)
      ELSE IF parsed.value.type # "dict"
      THEN classify_error(<<"'list'", "object", "has", "no", "attribute", "'get'">>)
      ELSE LET classification == parsed.value.v
               raw == Get(classification, "category", PyStr("general"))
           IN IF raw.type # "str"
              THEN classify_error(<<"'NoneType'", "object", "has", "no", "attribute", "'lower'">>)
              ELSE [category |-> LowerWord(raw.v),
                    urgency |-> Get(classification, "urgency", PyStr("medium")).v,
                    sentiment |-> Get(classification, "sentiment", PyStr("neutral")).v,
                    summary |-> Get(classification, "summary", PyStr(EmptyText)).v]

\* TicketClassifier.classify, given what self.llm.invoke did
classify(subject, description, reply) ==
    IF reply.raised THEN classify_error(reply.error)
    ELSE LET parsed == _parse_response(reply.content) IN
      IF parsed.raised THEN classify_error(parsed.error)
      ELSE IF parsed.value.type # "dict"
      THEN classify_error(<<"'list'", "object", "has", "no", "attribute", "'get'">>)
      ELSE LET classification == parsed.value.v
               raw == Get(classification, "category", PyStr("general"))
           IN IF raw.type # "str"
              THEN classify_error(<<"'NoneType'", "object", "has", "no", "attribute", "'lower'">>)
              ELSE [category |-> IF LowerWord(raw.v) \in TICKET_CATEGORIES
                                 THEN LowerWord(raw.v) ELSE "general",
                    urgency |-> Get(classification, "urgency", PyStr("medium")).v,
                    sentiment |-> Get(classification, "sentiment", PyStr("neutral")).v,
                    summary |-> Get(classification, "summary", PyStr(EmptyText)).v]

(* What the classification model may reply *)

Missing == "<missing>"

CategoryReplies == TICKET_CATEGORIES \cup {"Refund", "billing", Missing, NoneVal}
UrgencyReplies == TICKET_URGENCY \cup {"urgent", Missing}
SentimentReplies == TICKET_SENTIMENT \cup {"angry", Missing}

ReplySummary == <<"customer", "asks", "about", "a", "booking">>

Member(k, w) ==
    IF w = Missing THEN EmptyDict
    ELSE IF w = NoneVal THEN [x \in {k} |-> [type |-> "null", v |-> NoneVal]]
    ELSE [x \in {k} |-> PyStr(w)]

ReplyObject(c, u, s) ==
    Merge(Merge(Merge([summary |-> PyStr(ReplySummary)], Member("category", c)),
                Member("urgency", u)), Member("sentiment", s))

Commentary(n) == [i \in 1..n |-> Chunk("txt")]

Braced(obj) == <<Chunk("{"), BodyChunk(obj), Chunk("}")>>

\* replies that hold one JSON object, with or without surrounding commentary
ObjectReplies(obj) ==
    {Commentary(a) \o Braced(obj) \o Commentary(b) :
        a \in 0..MaxCommentary, b \in 0..MaxCommentary}

\* replies that do not: empty or prose only, an array, a truncated object,
\* braces in the wrong order, two objects
MalformedReplies(obj) ==
    {Commentary(n) : n \in 0..MaxCommentary}
    \cup {<<Chunk("[]")>>,
          <<Chunk("{"), BodyChunk(obj)>>,
          <<Chunk("}"), Chunk("txt"), Chunk("{")>>,
          Braced(obj) \o Commentary(1) \o Braced(obj)}

LlmError == <<"Bedrock", "read", "timeout">>

ClassifierReplies ==
    {[raised |-> TRUE, error |-> LlmError]}
    \cup {[raised |-> FALSE, content |-> t] :
            t \in UNION {ObjectReplies(ReplyObject(c, u, s)) :
                            c \in CategoryReplies, u \in UrgencyReplies, s \in SentimentReplies}}
    \cup {[raised |-> FALSE, content |-> t] :
            t \in MalformedReplies(ReplyObject("refund", "high", "negative"))}

----------------------------------------------------------------------------
(* External lookups: tools/rag_tools.py, tools/db_tools.py *)

\* cosine distances the vector store may report, in thousandths
Distances == {100, 200, 700}

\* ranked query results of at most n matches (nearest first)
RankedDistances(n) ==
    UNION {{d \in [1..k -> Distances] : \A i \in 1..(k - 1) : d[i] <= d[i + 1]} : k \in 0..n}

\* search_knowledge_base: formats what collection.query returned
search_knowledge_base(distances) ==
    [i \in 1..Len(distances) |->
        [title |-> "Refund policy",
         content |-> <<"Refunds", "take", "5", "days">>,
         category |-> "General",
         article_id |-> "kb_001",
         relevance_score |-> 1000 - distances[i]]]

DbError == <<"database", "is", "locked">>
SearchError == <<"vector", "store", "unavailable">>

\* what a data-store call may do: find the row, find nothing, or raise
LookupOutcomes == {"ok", "not_found", "raise"}

Raised(error) == [raised |-> TRUE, error |-> error]
Returned(value) == [raised |-> FALSE, value |-> value]

get_user_info(email, outcome) ==
    CASE outcome = "raise" -> Raised(DbError)
      [] outcome = "not_found" -> Returned(PyDict([error |-> <<"User", "not", "found">>]))
      [] outcome = "ok" ->
            Returned(PyDict([user_id |-> "u_00001", email |-> email,
                             full_name |-> "Ana", subscription_tier |-> "basic"]))

get_reservation_info(reservation_id, outcome) ==
    CASE outcome = "raise" -> Raised(DbError)
      [] outcome = "not_found" ->
            Returned(PyDict([error |-> <<"Reservation", "not", "found">>]))
      [] outcome = "ok" ->
            Returned(PyDict([reservation_id |-> reservation_id, status |-> "confirmed",
                             event_title |-> "Concert", total_price |-> 4000]))

get_user_reservations(email, outcome) ==
    CASE outcome = "raise" -> Raised(DbError)
      [] outcome = "not_found" ->
            Returned(PyList(<<[error |-> <<"User", "with", "email", email, "not", "found">>]>>))
      [] outcome = "ok" ->
            Returned(PyList(<<[reservation_id |-> "r_00001", status |-> "confirmed"]>>))

get_user_tickets(email, outcome) ==
    CASE outcome = "raise" -> Raised(DbError)
      [] outcome = "not_found" ->
            Returned(PyList(<<[error |-> <<"User", "with", "email", email, "not", "found">>]>>))
      [] outcome = "ok" ->
            Returned(PyList(<<[ticket_id |-> "t_00001", status |-> "resolved"]>>))

----------------------------------------------------------------------------
(* Context Gatherer: workflow/nodes.py tool_calling_node *)

OffTopicResponse ==
    <<"I'm", "EventHub's", "customer", "support", "assistant", "Unfortunately", "I'm",
      "not", "able", "to", "help", "with", "questions", "outside", "of", "these", "topics">>

\* invoke a tool inside try/except: the payload, or the error marker built
\* from the exception (a dict for dict-valued tools, a one-element list for
\* list-valued tools)
OrDictMarker(r) == IF r.raised THEN PyDict([error |-> r.error]) ELSE r.value
OrListMarker(r) == IF r.raised THEN PyList(<<[error |-> r.error]>>) ELSE r.value

\* rag_confidence from the top result (nodes.py:136-141)
top_relevance(tool_results) ==
    LET kb == Get(tool_results, "kb_results", PyList(<<>>)) IN
    IF Truthy(kb) /\ kb.type = "list" /\ Len(kb.v) > 0 /\ "relevance" \in DOMAIN kb.v[1]
    THEN Get(kb.v[1], "relevance", 0)
    ELSE 0

\* which lookups the node performs for this state
wants_user_lookups(st) == st.user_email # NoneVal /\ st.user_email # ""

\* the category test of the reservation lookup without complaint
wants_reservation_lookup_no_complaint(st) ==
    /\ Get(st, "category", "general") \in {"refund", "cancellation"}
    /\ st.reservation_id # NoneVal /\ st.reservation_id # ""

wants_reservation_lookup(st) ==
    /\ Get(st, "category", "general") \in {"refund", "cancellation", "complaint"}
    /\ st.reservation_id # NoneVal /\ st.reservation_id # ""

\* the node without its off-topic guard
lookups_performed_unguarded(st) ==
    {"search_knowledge_base"}
    \cup (IF wants_user_lookups(st)
          THEN {"get_user_info", "get_user_reservations", "get_user_tickets"}
          ELSE {})
    \cup (IF wants_reservation_lookup(st) THEN {"get_reservation_info"} ELSE {})

\* the external operations the node invokes for this state
lookups_performed(st) ==
    IF Get(st, "category", "general") = "off_topic" THEN {}
    ELSE {"search_knowledge_base"}
         \cup (IF wants_user_lookups(st)
               THEN {"get_user_info", "get_user_reservations", "get_user_tickets"}
               ELSE {})
         \cup (IF wants_reservation_lookup(st) THEN {"get_reservation_info"} ELSE {})

\* a node whose three caller lookups share one try block: the first failure
\* is recorded under user_info and the lookups after it are skipped
tool_calling_node_single_try(st, kb, ui, ur, ut, ri) ==
    IF Get(st, "category", "general") = "off_topic"
    THEN [tool_results |-> [off_topic |-> PyBool(TRUE)],
          rag_confidence |-> 0,
          status |-> "resolved",
          response |-> OffTopicResponse]
    ELSE
      LET t1 == Put(EmptyDict, "kb_results", OrListMarker(kb))
          t2 == IF ~wants_user_lookups(st) THEN t1
                ELSE IF ui.raised THEN Put(t1, "user_info", OrDictMarker(ui))
                ELSE IF ur.raised THEN Put(t1, "user_info", OrDictMarker(ur))
                ELSE IF ut.raised THEN Put(t1, "user_info", OrDictMarker(ut))
                ELSE Put(Put(Put(t1, "user_info", OrDictMarker(ui)),
                                 "user_reservations", OrListMarker(ur)),
                                 "user_support_tickets", OrListMarker(ut))
          t3 == IF wants_reservation_lookup(st)
                THEN Put(t2, "reservation_info", OrDictMarker(ri))
                ELSE t2
      IN [tool_results |-> t3, rag_confidence |-> top_relevance(t1)]

\* a node that stores an entry only for the lookups that returned
tool_calling_node_drops_failures(st, kb, ui, ur, ut, ri) ==
    IF Get(st, "category", "general") = "off_topic"
    THEN [tool_results |-> [off_topic |-> PyBool(TRUE)],
          rag_confidence |-> 0,
          status |-> "resolved",
          response |-> OffTopicResponse]
    ELSE
      LET t1 == Put(EmptyDict, "kb_results", OrListMarker(kb))
          t2 == IF wants_user_lookups(st) /\ ~ui.raised
                THEN Put(t1, "user_info", ui.value) ELSE t1
          t3 == IF wants_user_lookups(st) /\ ~ur.raised
                THEN Put(t2, "user_reservations", ur.value) ELSE t2
          t4 == IF wants_user_lookups(st) /\ ~ut.raised
                THEN Put(t3, "user_support_tickets", ut.value) ELSE t3
          t5 == IF wants_reservation_lookup(st) /\ ~ri.raised
                THEN Put(t4, "reservation_info", ri.value) ELSE t4
      IN [tool_results |-> t5, rag_confidence |-> top_relevance(t1)]

\* the dict the node returns; kb, ui, ur, ut, ri are what the five calls did
tool_calling_node(st, kb, ui, ur, ut, ri) ==
    IF Get(st, "category", "general") = "off_topic"
    THEN [tool_results |-> [off_topic |-> PyBool(TRUE)],
          rag_confidence |-> 0,
          status |-> "resolved",
          response |-> OffTopicResponse]
    ELSE
      LET t1 == Put(EmptyDict, "kb_results", OrListMarker(kb))
          t2 == IF wants_user_lookups(st)
                THEN Put(Put(Put(t1, "user_info", OrDictMarker(ui)),
                                 "user_reservations", OrListMarker(ur)),
                                 "user_support_tickets", OrListMarker(ut))
                ELSE t1
          t3 == IF wants_reservation_lookup(st)
                THEN Put(t2, "reservation_info", OrDictMarker(ri))
                ELSE t2
      IN [tool_results |-> t3, rag_confidence |-> top_relevance(t1)]

----------------------------------------------------------------------------
(* Resolution Stage and Escalation Rule Engine: agents/resolver.py *)

\* order in which tool_results.items() yields the keys (insertion order)
ToolKeyOrder ==
    <<"off_topic", "kb_results", "user_info", "user_reservations",
      "user_support_tickets", "reservation_info">>

insufficient_markers ==
    {<<"don't", "have", "enough", "information">>,
     <<"don't", "have", "that", "information">>,
     <<"connect", "you", "with", "a", "specialist">>,
     <<"unable", "to", "resolve">>,
     <<"need", "to", "escalate">>,
     <<"let", "me", "connect", "you">>}

\* entries of tool_results that are strings mentioning an error, in order
error_strings(tool_results) ==
    SelectSeq(ToolKeyOrder,
              LAMBDA k : /\ k \in DOMAIN tool_results
                         /\ tool_results[k].type = "str"
                         /\ Contains(Lower(tool_results[k].v), <<"error">>))

\* len(kb_results) == 0 or a falsy kb_results
no_kb_results(kb_results) == ~Truthy(kb_results) \/ Len(kb_results.v) = 0

\* Rule 1 comparing against a misspelt category
complaint_rule_misspelt(category) == category = "complaints"

\* Rule 1: always escalate complaints
complaint_rule(category) == category = "complaint"

\* a rule 2 that leaves a confidence of zero to the rules after it
low_confidence_rule_positive(rag_confidence) == 0 < rag_confidence /\ rag_confidence < 500

\* Rule 2: low KB confidence, and the reason it gives
low_confidence_rule(rag_confidence) == rag_confidence < 500

\* the reason of rule 2 without the formatted value
low_confidence_reason_bare(rag_confidence) ==
    <<"Low", "knowledge", "base", "confidence">>

low_confidence_reason(rag_confidence) ==
    <<"Low", "knowledge", "base", "confidence", "(", FormatPercent1(rag_confidence), ")">>

\* a rule engine that tests for zero results before it tests the confidence
_should_escalate_reordered(classification, rag_confidence, kb_results, response_text, tool_results) ==
    LET category == Get(classification, "category", "general")
        urgency == Get(classification, "urgency", "medium")
        sentiment == Get(classification, "sentiment", "neutral")
        errs == error_strings(tool_results)
    IN
    IF complaint_rule(category)
    THEN [escalate |-> TRUE,
          reason |-> <<"Complaints", "require", "human", "review", "for",
                       "customer", "satisfaction">>]
    ELSE IF no_kb_results(kb_results)
    THEN [escalate |-> TRUE,
          reason |-> <<"No", "relevant", "knowledge", "base", "articles", "found">>]
    ELSE IF low_confidence_rule(rag_confidence)
    THEN [escalate |-> TRUE, reason |-> low_confidence_reason(rag_confidence)]
    ELSE IF \E marker \in insufficient_markers : Contains(Lower(response_text), marker)
    THEN [escalate |-> TRUE,
          reason |-> <<"Response", "indicates", "need", "for", "specialist", "assistance">>]
    ELSE IF urgency = "critical" /\ sentiment = "negative" /\ rag_confidence < 700
    THEN [escalate |-> TRUE,
          reason |-> <<"Critical", "negative", "issue", "with", "moderate", "KB",
                       "confidence", "(", FormatPercent1(rag_confidence), ")">>]
    ELSE IF errs # <<>> /\ category \in {"refund", "cancellation"}
    THEN [escalate |-> TRUE,
          reason |-> <<"Tool", "error", "in", "critical", "category:">>
                     \o Prefix(tool_results[errs[1]].v, 100)]
    ELSE [escalate |-> FALSE, reason |-> EmptyText]

\* TicketResolver._should_escalate
_should_escalate(classification, rag_confidence, kb_results, response_text, tool_results) ==
    LET category == Get(classification, "category", "general")
        urgency == Get(classification, "urgency", "medium")
        sentiment == Get(classification, "sentiment", "neutral")
        errs == error_strings(tool_results)
    IN
    IF complaint_rule(category)
    THEN [escalate |-> TRUE,
          reason |-> <<"Complaints", "require", "human", "review", "for",
                       "customer", "satisfaction">>]
    ELSE IF low_confidence_rule(rag_confidence)
    THEN [escalate |-> TRUE, reason |-> low_confidence_reason(rag_confidence)]
    ELSE IF no_kb_results(kb_results)
    THEN [escalate |-> TRUE,
          reason |-> <<"No", "relevant", "knowledge", "base", "articles", "found">>]
    ELSE IF \E marker \in insufficient_markers : Contains(Lower(response_text), marker)
    THEN [escalate |-> TRUE,
          reason |-> <<"Response", "indicates", "need", "for", "specialist", "assistance">>]
    ELSE IF urgency = "critical" /\ sentiment = "negative" /\ rag_confidence < 700
    THEN [escalate |-> TRUE,
          reason |-> <<"Critical", "negative", "issue", "with", "moderate", "KB",
                       "confidence", "(", FormatPercent1(rag_confidence), ")">>]
    ELSE IF errs # <<>> /\ category \in {"refund", "cancellation"}
    THEN [escalate |-> TRUE,
          reason |-> <<"Tool", "error", "in", "critical", "category:">>
                     \o Prefix(tool_results[errs[1]].v, 100)]
    ELSE [escalate |-> FALSE, reason |-> EmptyText]

\* rag_confidence as resolve extracts it (resolver.py:115-119)
resolve_confidence(tool_results) ==
    LET kb == Get(tool_results, "kb_results", PyList(<<>>)) IN
    IF Truthy(kb) /\ kb.type = "list" /\ Len(kb.v) > 0
    THEN Get(kb.v[1], "relevance", 0)
    ELSE 0

\* an except branch of resolve that reports the failure as its own status
resolve_error_status(error, rag_confidence) ==
    [status |-> "error",
     response |-> EmptyText,
     escalation_reason |-> <<"Resolution", "error:">> \o error,
     rag_confidence |-> rag_confidence,
     error |-> error]

\* the except branch of resolve
resolve_error(error, rag_confidence) ==
    [status |-> "escalated",
     response |-> EmptyText,
     escalation_reason |-> <<"Resolution", "error:">> \o error,
     rag_confidence |-> rag_confidence,
     error |-> error]

\* TicketResolver.resolve, given what self.llm.invoke did
resolve(ticket_data, classification, tool_results, reply) ==
    LET rag_confidence == resolve_confidence(tool_results)
        kb_results == Get(tool_results, "kb_results", PyList(<<>>))
    IN
    IF reply.raised
    THEN resolve_error(reply.error, rag_confidence)
    ELSE
      LET decision == _should_escalate(classification, rag_confidence, kb_results,
                                       reply.content, tool_results)
      IN [status |-> IF decision.escalate THEN "escalated" ELSE "resolved",
          response |-> reply.content,
          escalation_reason |-> IF decision.escalate THEN decision.reason ELSE EmptyText,
          rag_confidence |-> rag_confidence]

\* what the resolution model may do
ResolverReplies ==
    {Raised(LlmError)}
    \cup {[raised |-> FALSE, content |-> t] :
            t \in {<<"Your", "refund", "will", "arrive", "in", "5", "days">>,
                   <<"I", "don't", "have", "enough", "information", "Let", "Me",
                     "Connect", "You", "with", "a", "specialist">>}}

ticket_data_of(st) ==
    [ticket_id |-> st.ticket_id, subject |-> st.subject, description |-> st.description,
     user_email |-> st.user_email, reservation_id |-> st.reservation_id]

classification_of(st) ==
    [category |-> st.category, urgency |-> st.urgency,
     sentiment |-> st.sentiment, summary |-> st.summary]

\* a resolver node that does not look for the off-topic marker
resolver_node_unguarded(st, reply) ==
    LET resolution == resolve(ticket_data_of(st), classification_of(st),
                              Get(st, "tool_results", EmptyDict), reply)
    IN [response |-> Get(resolution, "response", EmptyText),
        status |-> Get(resolution, "status", "resolved"),
        escalation_reason |-> Get(resolution, "escalation_reason", EmptyText),
        rag_confidence |-> Get(resolution, "rag_confidence", Get(st, "rag_confidence", 0))]

\* workflow/nodes.py resolver_node: the dict it returns
resolver_node(st, reply) ==
    IF Truthy(Get(Get(st, "tool_results", EmptyDict), "off_topic", PyBool(FALSE)))
    THEN [response |-> Get(st, "response", <<"I", "can", "only", "help", "with",
                                             "EventHub-related", "questions.">>),
          status |-> "resolved",
          escalation_reason |-> EmptyText,
          rag_confidence |-> 0]
    ELSE
      LET resolution == resolve(ticket_data_of(st), classification_of(st),
                                Get(st, "tool_results", EmptyDict), reply)
      IN [response |-> Get(resolution, "response", EmptyText),
          status |-> Get(resolution, "status", "resolved"),
          escalation_reason |-> Get(resolution, "escalation_reason", EmptyText),
          rag_confidence |-> Get(resolution, "rag_confidence", Get(st, "rag_confidence", 0))]

\* workflow/nodes.py route_from_resolver
route_from_resolver(st) ==
    IF Get(st, "status", "resolved") = "escalated" THEN "escalate" ELSE "respond"

----------------------------------------------------------------------------
(* Escalation Packager: agents/escalation.py *)

\* a priority computation that asks for critical urgency and a complaint together
_calculate_priority_both(classification, escalation_reason) ==
    LET urgency == Get(classification, "urgency", "medium")
        sentiment == Get(classification, "sentiment", "neutral")
        category == Get(classification, "category", "general")
    IN
    IF urgency = "critical" /\ category = "complaint" THEN 1
    ELSE IF urgency = "high" /\ sentiment = "negative" THEN 2
    ELSE IF urgency \in {"medium", "high"}
            \/ Contains(Lower(escalation_reason), <<"confidence">>) THEN 3
    ELSE 4

\* a priority computation that never looks at the escalation reason
_calculate_priority_ignores_reason(classification, escalation_reason) ==
    LET urgency == Get(classification, "urgency", "medium")
        sentiment == Get(classification, "sentiment", "neutral")
        category == Get(classification, "category", "general")
    IN
    IF urgency = "critical" \/ category = "complaint" THEN 1
    ELSE IF urgency = "high" /\ sentiment = "negative" THEN 2
    ELSE IF urgency \in {"medium", "high"} THEN 3
    ELSE 4

\* EscalationAgent._calculate_priority
_calculate_priority(classification, escalation_reason) ==
    LET urgency == Get(classification, "urgency", "medium")
        sentiment == Get(classification, "sentiment", "neutral")
        category == Get(classification, "category", "general")
    IN
    IF urgency = "critical" \/ category = "complaint" THEN 1
    ELSE IF urgency = "high" /\ sentiment = "negative" THEN 2
    ELSE IF urgency \in {"medium", "high"}
            \/ Contains(Lower(escalation_reason), <<"confidence">>) THEN 3
    ELSE 4

\* EscalationAgent._generate_customer_message: no exception handler around
\* self.llm.invoke, so a failed call leaves the method by the exception
_generate_customer_message(ticket_data, classification, escalation_reason, reply) ==
    IF reply.raised
    THEN Raised(reply.error)
    ELSE Returned(Strip(reply.content))

\* EscalationAgent._format_escalation_package; resolver_response is the
\* state's response, a str on every path, so "is not None" is true
_format_escalation_package(ticket_data, classification, tool_results, escalation_reason, resolver_response, priority) ==
    [ticket_info |-> ticket_data,
     classification |-> classification,
     escalation_info |-> [reason |-> escalation_reason,
                          priority |-> priority,
                          resolver_attempted |-> TRUE],
     tool_results |-> tool_results]

\* EscalationAgent.escalate
escalate(ticket_data, classification, tool_results, escalation_reason, resolver_response, reply) ==
    LET message == _generate_customer_message(ticket_data, classification,
                                              escalation_reason, reply)
        priority == _calculate_priority(classification, escalation_reason)
    IN
    IF message.raised THEN message
    ELSE Returned([status |-> "escalated",
                   customer_message |-> message.value,
                   escalation_package |->
                       _format_escalation_package(ticket_data, classification, tool_results,
                                                  escalation_reason, resolver_response,
                                                  priority),
                   priority |-> priority])

\* what the escalation-message model may do
EscalationReplies ==
    {Raised(LlmError),
     [raised |-> FALSE,
      content |-> <<" ", "We", "are", "connecting", "you", "with", "a", "specialist", " ">>]}

\* an escalation node that hands the resolver's response to the customer
escalation_node_keeps_response(st, reply) ==
    LET r == escalate(ticket_data_of(st), classification_of(st),
                      Get(st, "tool_results", EmptyDict),
                      Get(st, "escalation_reason", <<"Unknown">>),
                      Get(st, "response", NoneVal), reply)
    IN
    IF r.raised THEN r
    ELSE Returned([escalation_priority |-> Get(r.value, "priority", 3),
                   customer_message |-> Get(r.value, "customer_message", EmptyText),
                   escalation_package |-> Get(r.value, "escalation_package", EmptyDict),
                   final_response |-> Get(st, "response", EmptyText),
                   final_status |-> "escalated"])

\* workflow/nodes.py escalation_node: the dict it returns, or the exception
escalation_node(st, reply) ==
    LET r == escalate(ticket_data_of(st), classification_of(st),
                      Get(st, "tool_results", EmptyDict),
                      Get(st, "escalation_reason", <<"Unknown">>),
                      Get(st, "response", NoneVal), reply)
    IN
    IF r.raised THEN r
    ELSE Returned([escalation_priority |-> Get(r.value, "priority", 3),
                   customer_message |-> Get(r.value, "customer_message", EmptyText),
                   escalation_package |-> Get(r.value, "escalation_package", EmptyDict),
                   final_response |-> Get(r.value, "customer_message", EmptyText),
                   final_status |-> "escalated"])

\* a response node that forgets the final status
response_node_no_status(st) ==
    [final_response |-> Get(st, "response", EmptyText)]

\* workflow/nodes.py response_node
response_node(st) ==
    [final_response |-> Get(st, "response", EmptyText),
     final_status |-> "resolved"]

----------------------------------------------------------------------------
(* Persistence: tools/db_tools.py create_support_ticket *)

\* what the write may do: commit, fail inside the function's try block, or
\* fail outside it (the session context manager)
SaveOutcomes == {"ok", "db_error", "raise"}

\* the write on a tickets table that declares no key on ticket_id
create_support_ticket_no_key(table, ticket_id, subject, description, category, priority, status, user_email, reservation_id, user_found, outcome) ==
    LET resolved_user_id ==
            IF user_email # NoneVal /\ user_email # "" /\ user_found
            THEN "u_00001" ELSE "u_anonymous"
        row == [ticket_id |-> ticket_id, user_id |-> resolved_user_id,
                user_email |-> user_email, subject |-> subject,
                description |-> description, category |-> category,
                priority |-> priority, status |-> status,
                reservation_id |-> reservation_id]
    IN
    CASE outcome = "raise" -> [table |-> table, ret |-> Raised(DbError)]
      [] outcome = "db_error" ->
            [table |-> table,
             ret |-> Returned([success |-> FALSE, ticket_id |-> ticket_id])]
      [] outcome = "ok" ->
            [table |-> Append(table, row),
             ret |-> Returned([success |-> TRUE, ticket_id |-> ticket_id])]

\* the row, the table after the call and the value returned (or the exception);
\* the INSERT of a ticket_id the table already holds violates the PRIMARY KEY,
\* and the IntegrityError is caught by the function's except branch
create_support_ticket(table, ticket_id, subject, description, category, priority, status, user_email, reservation_id, user_found, outcome) ==
    LET resolved_user_id ==
            IF user_email # NoneVal /\ user_email # "" /\ user_found
            THEN "u_00001" ELSE "u_anonymous"
        row == [ticket_id |-> ticket_id, user_id |-> resolved_user_id,
                user_email |-> user_email, subject |-> subject,
                description |-> description, category |-> category,
                priority |-> priority, status |-> status,
                reservation_id |-> reservation_id]
        duplicate == \E i \in DOMAIN table : table[i].ticket_id = ticket_id
    IN
    CASE outcome = "raise" -> [table |-> table, ret |-> Raised(DbError)]
      [] outcome = "db_error" \/ (outcome = "ok" /\ duplicate) ->
            [table |-> table,
             ret |-> Returned([success |-> FALSE, ticket_id |-> ticket_id])]
      [] outcome = "ok" /\ ~duplicate ->
            [table |-> Append(table, row),
             ret |-> Returned([success |-> TRUE, ticket_id |-> ticket_id])]

----------------------------------------------------------------------------
(* Workflow Controller: workflow/state.py, workflow/graph.py *)

\* workflow/state.py create_initial_state
create_initial_state(ticket_id, subject, description, user_email, reservation_id) ==
    [ticket_id |-> ticket_id,
     subject |-> subject,
     description |-> description,
     user_email |-> user_email,
     reservation_id |-> reservation_id,
     category |-> "",
     urgency |-> "",
     sentiment |-> "",
     summary |-> EmptyText,
     tool_results |-> EmptyDict,
     rag_confidence |-> 0,
     response |-> EmptyText,
     escalation_reason |-> EmptyText,
     status |-> "",
     escalation_priority |-> 4,
     customer_message |-> EmptyText,
     escalation_package |-> EmptyDict,
     final_response |-> EmptyText,
     final_status |-> ""]

\* workflow/nodes.py classifier_node: the dict it returns
classifier_node(st, reply) ==
    LET classification == classify(st.subject, st.description, reply) IN
    [category |-> Get(classification, "category", "general"),
     urgency |-> Get(classification, "urgency", "medium"),
     sentiment |-> Get(classification, "sentiment", "neutral"),
     summary |-> Get(classification, "summary", EmptyText)]

\* an output that carries escalation details whatever the final status
format_output_always(res) ==
    Put([ticket_id |-> res.ticket_id,
         final_response |-> Get(res, "final_response", EmptyText),
         final_status |-> Get(res, "final_status", "resolved"),
         classification |-> classification_of(res),
         tool_results |-> Get(res, "tool_results", EmptyDict),
         rag_confidence |-> Get(res, "rag_confidence", 0)],
        "escalation_details",
        [priority |-> res.escalation_priority,
         customer_message |-> res.customer_message,
         escalation_reason |-> res.escalation_reason,
         escalation_package |-> res.escalation_package])

\* the part of run_ticket that formats the output (graph.py:162-183)
format_output(res) ==
    LET base == [ticket_id |-> res.ticket_id,
                 final_response |-> Get(res, "final_response", EmptyText),
                 final_status |-> Get(res, "final_status", "resolved"),
                 classification |-> classification_of(res),
                 tool_results |-> Get(res, "tool_results", EmptyDict),
                 rag_confidence |-> Get(res, "rag_confidence", 0)]
    IN IF res.final_status = "escalated"
       THEN Put(base, "escalation_details",
                [priority |-> res.escalation_priority,
                 customer_message |-> res.customer_message,
                 escalation_reason |-> res.escalation_reason,
                 escalation_package |-> res.escalation_package])
       ELSE base

\* a mapping that passes every urgency through
urgency_to_priority_unmapped(urgency) == urgency

\* urgency_to_priority.get(urgency, "medium") (graph.py:187-193)
urgency_to_priority(urgency) ==
    IF urgency \in {"low", "medium", "high", "critical"} THEN urgency ELSE "medium"

\* ticket status written to the store (graph.py:196)
db_status(res) == IF res.final_status = "resolved" THEN "resolved" ELSE "escalated"

\* arguments of run_ticket
Subjects == {EmptyText, <<"Refund", "request">>}
Emails == {NoneVal, "ana@example.com"}
ReservationIds == {NoneVal, "r_00001"}

\* an empty message (anonymous), and a worded one from every kind of caller
Tickets ==
    [ticket_id : {"CHAT-1"}, subject : {EmptyText}, description : {EmptyText},
     user_email : {NoneVal}, reservation_id : {NoneVal}]
    \cup [ticket_id : {"CHAT-1"}, subject : Subjects \ {EmptyText},
          description : Subjects \ {EmptyText},
          user_email : Emails, reservation_id : ReservationIds]

NoCalls ==
    [classification_llm |-> 0, search_knowledge_base |-> 0, get_user_info |-> 0,
     get_user_reservations |-> 0, get_user_tickets |-> 0, get_reservation_info |-> 0,
     resolution_llm |-> 0, rule_engine |-> 0, escalation_llm |-> 0,
     create_support_ticket |-> 0, user_by_email |-> 0]

Bump(c, ops) == [k \in DOMAIN c |-> IF k \in ops THEN c[k] + 1 ELSE c[k]]

\* a caller that issues a failed call a second time
call_with_retry(call_failed) == IF call_failed THEN 2 ELSE 1

\* every external operation is called in a plain try/except (or with none):
\* one invocation, whether or not it fails
call_once(call_failed) == 1

\* the invocation counts after the operations ops were called, failing ones given
BumpCalls(c, ops, failing) ==
    [k \in DOMAIN c |-> IF k \in ops THEN c[k] + call_once(k \in failing) ELSE c[k]]

\* a save step that turns a failed write into the status of the outcome
save_output_overwrites(out, ret) ==
    IF ret.raised
    THEN Put(Put(Put(out, "ticket_saved", FALSE), "ticket_save_error", ret.error),
             "final_status", "error")
    ELSE IF Get(ret.value, "success", FALSE)
    THEN Put(out, "ticket_saved", TRUE)
    ELSE Put(Put(out, "ticket_saved", FALSE), "final_status", "error")

\* the part of run_ticket that records the save (graph.py:203-219)
save_output(out, ret) ==
    IF ret.raised
    THEN Put(Put(out, "ticket_saved", FALSE), "ticket_save_error", ret.error)
    ELSE Put(out, "ticket_saved", Get(ret.value, "success", FALSE))

\* the pipeline before run_ticket is called
Idle(t) ==
    /\ ticket = t
    /\ pc = "Classifying"
    /\ state = create_initial_state(t.ticket_id, t.subject, t.description,
                                    t.user_email, t.reservation_id)
    /\ output = EmptyDict
    /\ calls = NoCalls
    /\ trace = <<"Classifying">>
    /\ failed = {}
    /\ tickets_table = <<>>

\* no direct call of the rule engine or of classify under way
RuleIdle ==
    /\ rule_in = [classification |-> [category |-> "general"], rag_confidence |-> 0,
                  kb_results |-> PyList(<<>>), response_text |-> EmptyText,
                  tool_results |-> EmptyDict]
    /\ rule_out = [called |-> FALSE, escalate |-> FALSE, reason |-> EmptyText, priority |-> 0]

ClassifyIdle ==
    /\ classify_in = [subject |-> EmptyText, description |-> EmptyText,
                      reply |-> Raised(LlmError)]
    /\ classify_out = [called |-> FALSE]

PriorityIdle ==
    /\ priority_in = [classification |-> EmptyDict, escalation_reason |-> EmptyText]
    /\ priority_out = [called |-> FALSE, value |-> 0]

\* the two callers of create_support_ticket
Callers == {1, 2}

SaveIdle ==
    save_calls = [i \in Callers |->
                    [pc |-> "idle", ticket_id |-> "CHAT-1", status |-> "resolved",
                     user_email |-> NoneVal, user_found |-> FALSE,
                     ret |-> Returned(EmptyDict)]]

\* the two concurrent invocations of run_ticket
Runs == {1, 2}

\* nodes.py:25-27: no agent created yet
NoHandles == [classifier |-> NoneVal, resolver |-> NoneVal, escalation_agent |-> NoneVal]

\* two tickets, with the ids the caller generated for them
PairTicket(r) ==
    IF r = 1
    THEN [ticket_id |-> "CHAT-1", subject |-> <<"Refund", "request">>,
          description |-> <<"Refund", "request">>,
          user_email |-> "ana@example.com", reservation_id |-> "r_00001"]
    ELSE [ticket_id |-> "CHAT-2", subject |-> <<"Refund", "request">>,
          description |-> <<"Refund", "request">>,
          user_email |-> NoneVal, reservation_id |-> NoneVal]

\* what the collaborators answer to one invocation
PairReplies ==
    [classifier : {Raised(LlmError),
                   [raised |-> FALSE,
                    content |-> Braced(ReplyObject("refund", "high", "negative"))],
                   [raised |-> FALSE,
                    content |-> Braced(ReplyObject("off_topic", "low", "neutral"))]},
     kb : {Returned(PyList(search_knowledge_base(<<200>>)))},
     resolver : {Raised(LlmError),
                 [raised |-> FALSE,
                  content |-> <<"Your", "refund", "will", "arrive", "in", "5", "days">>]},
     escalation : EscalationReplies,
     save : {"ok"}]

RunAt(r, position, replies) ==
    [pc |-> position, sub |-> "check", agent |-> NoneVal, made |-> {},
     ticket |-> PairTicket(r),
     state |-> create_initial_state(PairTicket(r).ticket_id, PairTicket(r).subject,
                                    PairTicket(r).description, PairTicket(r).user_email,
                                    PairTicket(r).reservation_id),
     output |-> EmptyDict,
     replies |-> replies]

PairIdle ==
    /\ handles = NoHandles
    /\ runs = [r \in Runs |->
                 RunAt(r, "idle", CHOOSE x \in PairReplies :
                                     x.classifier.raised /\ x.resolver.raised
                                     /\ x.escalation.raised /\ x.save = "ok")]

\* the pipeline alone: no direct call and no second invocation under way
Init ==
    /\ \E t \in Tickets : Idle(t)
    /\ RuleIdle
    /\ ClassifyIdle
    /\ PriorityIdle
    /\ SaveIdle
    /\ PairIdle

\* classifier node, then the edge classifier -> tool_caller
Classifying ==
    /\ pc = "Classifying"
    /\ \E reply \in ClassifierReplies :
          /\ state' = Merge(state, classifier_node(state, reply))
          /\ failed' = IF reply.raised THEN failed \cup {"classification_llm"} ELSE failed
    /\ calls' = BumpCalls(calls, {"classification_llm"}, failed')
    /\ pc' = "Gathering"
    /\ trace' = Append(trace, "Gathering")
    /\ UNCHANGED <<ticket, output, tickets_table, direct_vars>>

KbOutcomes ==
    {Raised(SearchError)}
    \cup {Returned(PyList(search_knowledge_base(d))) : d \in RankedDistances(MaxMatches)}

\* tool_caller node, then the edge tool_caller -> resolver
Gathering ==
    /\ pc = "Gathering"
    /\ \E kb \in KbOutcomes, ui, ur, ut, ri \in LookupOutcomes :
          /\ state' = Merge(state,
                            tool_calling_node(state, kb,
                                              get_user_info(state.user_email, ui),
                                              get_user_reservations(state.user_email, ur),
                                              get_user_tickets(state.user_email, ut),
                                              get_reservation_info(state.reservation_id, ri)))
          /\ failed' = failed \cup
                (lookups_performed(state) \cap
                    ((IF kb.raised THEN {"search_knowledge_base"} ELSE {})
                     \cup (IF ui # "ok" THEN {"get_user_info"} ELSE {})
                     \cup (IF ur # "ok" THEN {"get_user_reservations"} ELSE {})
                     \cup (IF ut # "ok" THEN {"get_user_tickets"} ELSE {})
                     \cup (IF ri # "ok" THEN {"get_reservation_info"} ELSE {})))
    /\ calls' = BumpCalls(calls, lookups_performed(state), failed')
    /\ pc' = "Resolving"
    /\ trace' = Append(trace, "Resolving")
    /\ UNCHANGED <<ticket, output, tickets_table, direct_vars>>

\* resolver_node calls resolve (and the model) unless off_topic was handled
resolver_calls_llm(st) ==
    ~Truthy(Get(Get(st, "tool_results", EmptyDict), "off_topic", PyBool(FALSE)))

\* resolve calls _should_escalate once the model has replied (resolver.py:174-188)
resolver_calls_rule_engine(st, reply) == resolver_calls_llm(st) /\ ~reply.raised

\* resolver node; its conditional edge is evaluated next
Resolving ==
    /\ pc = "Resolving"
    /\ \E reply \in ResolverReplies :
          /\ state' = Merge(state, resolver_node(state, reply))
          /\ failed' = IF resolver_calls_llm(state) /\ reply.raised
                       THEN failed \cup {"resolution_llm"} ELSE failed
          /\ calls' = BumpCalls(calls,
                           (IF resolver_calls_llm(state) THEN {"resolution_llm"} ELSE {})
                           \cup (IF resolver_calls_rule_engine(state, reply)
                                 THEN {"rule_engine"} ELSE {}),
                           failed')
    /\ pc' = "Routing"
    /\ trace' = Append(trace, "Routing")
    /\ UNCHANGED <<ticket, output, tickets_table, direct_vars>>

\* the conditional edge from resolver (graph.py:93-100)
Routing ==
    /\ pc = "Routing"
    /\ pc' = IF route_from_resolver(state) = "escalate" THEN "Escalating" ELSE "Responding"
    /\ trace' = Append(trace, pc')
    /\ UNCHANGED <<ticket, state, output, calls, failed, tickets_table, direct_vars>>

\* escalate node, then the edge escalate -> END; an exception raised in the
\* node leaves orchestrator.invoke and run_ticket
Escalating ==
    /\ pc = "Escalating"
    /\ \E reply \in EscalationReplies :
          LET r == escalation_node(state, reply) IN
          /\ failed' = IF reply.raised THEN failed \cup {"escalation_llm"} ELSE failed
          /\ IF r.raised
             THEN /\ pc' = "Raised"
                  /\ UNCHANGED <<state, trace>>
             ELSE /\ state' = Merge(state, r.value)
                  /\ pc' = "Done"
                  /\ trace' = Append(trace, "Done")
    /\ calls' = BumpCalls(calls, {"escalation_llm"}, failed')
    /\ UNCHANGED <<ticket, output, tickets_table, direct_vars>>

\* respond node, then the edge respond -> END
Responding ==
    /\ pc = "Responding"
    /\ state' = Merge(state, response_node(state))
    /\ pc' = "Done"
    /\ trace' = Append(trace, "Done")
    /\ UNCHANGED <<ticket, output, calls, failed, tickets_table, direct_vars>>

\* run_ticket after orchestrator.invoke returned: build the output
FormatOutput ==
    /\ pc = "Done"
    /\ output' = format_output(state)
    /\ pc' = "Saving"
    /\ UNCHANGED <<ticket, state, calls, trace, failed, tickets_table, direct_vars>>

\* run_ticket: save the ticket and return the output (graph.py:185-221)
SaveTicket ==
    /\ pc = "Saving"
    /\ \E outcome \in SaveOutcomes, user_found \in BOOLEAN :
          LET saved == create_support_ticket(
                           tickets_table, ticket.ticket_id, ticket.subject,
                           ticket.description, Get(state, "category", "general"),
                           urgency_to_priority(Get(state, "urgency", "medium")),
                           db_status(state), ticket.user_email, ticket.reservation_id,
                           user_found, outcome)
          IN /\ tickets_table' = saved.table
             /\ output' = save_output(output, saved.ret)
             /\ failed' = IF saved.ret.raised \/ ~saved.ret.value.success
                          THEN failed \cup {"create_support_ticket"} ELSE failed
    /\ calls' = BumpCalls(calls, {"create_support_ticket"}
                            \cup (IF ticket.user_email # NoneVal /\ ticket.user_email # ""
                                  THEN {"user_by_email"} ELSE {}),
                         failed')
    /\ pc' = "Returned"
    /\ UNCHANGED <<ticket, state, trace, direct_vars>>

Next ==
    \/ Classifying
    \/ Gathering
    \/ Resolving
    \/ Routing
    \/ Escalating
    \/ Responding
    \/ FormatOutput
    \/ SaveTicket

Spec == Init /\ [][Next]_vars

----------------------------------------------------------------------------
(* Direct calls of the rule engine: every combination of its arguments *)

RuleConfidences == {0, 300, 499, 500, 650, 700, 900}

classification_dict(c, u, s) ==
    Merge(Merge(IF c = Missing THEN EmptyDict ELSE [category |-> c],
                IF u = Missing THEN EmptyDict ELSE [urgency |-> u]),
          IF s = Missing THEN EmptyDict ELSE [sentiment |-> s])

RuleKbResults(n) == PyList(search_knowledge_base([i \in 1..n |-> 200]))

RuleResponses ==
    {<<"Your", "refund", "will", "arrive", "in", "5", "days">>,
     <<"We", "are", "Unable", "to", "resolve", "this">>,
     <<"I", "don't", "have", "enough", "information">>}

RuleToolResults(name) ==
    CASE name = "none" -> EmptyDict
      [] name = "payloads" ->
            [kb_results |-> RuleKbResults(1),
             user_info |-> get_user_info("ana@example.com", "ok").value]
      [] name = "dict_marker" ->
            [user_info |-> OrDictMarker(get_user_info("ana@example.com", "raise"))]
      [] name = "error_string" ->
            [user_info |-> PyStr(<<"Error", "connection", "refused">>)]
      [] name = "lookup_failure" ->
            tool_calling_node(
                [category |-> "refund", user_email |-> "ana@example.com",
                 reservation_id |-> NoneVal],
                Returned(PyList(search_knowledge_base(<<100>>))),
                get_user_info("ana@example.com", "ok"),
                get_user_reservations("ana@example.com", "raise"),
                get_user_tickets("ana@example.com", "ok"),
                get_reservation_info(NoneVal, "ok")).tool_results

RuleToolResultNames == {"none", "payloads", "dict_marker", "error_string", "lookup_failure"}

InitRules ==
    /\ \E t \in Tickets : t.user_email = NoneVal /\ t.subject = EmptyText /\ Idle(t)
    /\ ClassifyIdle
    /\ PriorityIdle
    /\ SaveIdle
    /\ PairIdle
    /\ \E c \in TICKET_CATEGORIES \cup {Missing},
          u \in TICKET_URGENCY \cup {Missing},
          s \in TICKET_SENTIMENT \cup {Missing},
          conf \in RuleConfidences,
          n \in 0..MaxMatches,
          r \in RuleResponses,
          tr \in RuleToolResultNames :
            rule_in = [classification |-> classification_dict(c, u, s),
                       rag_confidence |-> conf,
                       kb_results |-> RuleKbResults(n),
                       response_text |-> r,
                       tool_results |-> RuleToolResults(tr)]
    /\ rule_out = [called |-> FALSE, escalate |-> FALSE, reason |-> EmptyText, priority |-> 0]

\* the priority escalate computes when the decision is handed to it with the
\* same classification (nodes.py:277-283); 0 when the ticket is not escalated
priority_of_decision(classification, d) ==
    IF d.escalate THEN _calculate_priority(classification, d.reason) ELSE 0

ShouldEscalate ==
    /\ ~rule_out.called
    /\ LET d == _should_escalate(rule_in.classification, rule_in.rag_confidence,
                                 rule_in.kb_results, rule_in.response_text,
                                 rule_in.tool_results)
       IN rule_out' = [called |-> TRUE, escalate |-> d.escalate, reason |-> d.reason,
                       priority |-> priority_of_decision(rule_in.classification, d)]
    /\ UNCHANGED <<pipeline_vars, rule_in, classify_vars, priority_vars, save_calls, pair_vars>>

NextRules == ShouldEscalate

SpecRules == InitRules /\ [][NextRules]_vars

----------------------------------------------------------------------------
(* Direct calls of classify: every subject, description and model reply *)

InitClassify ==
    /\ \E t \in Tickets : t.user_email = NoneVal /\ t.subject = EmptyText /\ Idle(t)
    /\ RuleIdle
    /\ PriorityIdle
    /\ SaveIdle
    /\ PairIdle
    /\ \E subject \in Subjects, description \in Subjects, reply \in ClassifierReplies :
          classify_in = [subject |-> subject, description |-> description, reply |-> reply]
    /\ classify_out = [called |-> FALSE]

Classify ==
    /\ ~classify_out.called
    /\ classify_out' = [called |-> TRUE,
                        value |-> classify(classify_in.subject, classify_in.description,
                                           classify_in.reply),
                        stored |-> classifier_node(
                                       create_initial_state("CHAT-1", classify_in.subject,
                                                            classify_in.description,
                                                            NoneVal, NoneVal),
                                       classify_in.reply)]
    /\ UNCHANGED <<pipeline_vars, rule_vars, classify_in, priority_vars, save_calls, pair_vars>>

NextClassify == Classify

SpecClassify == InitClassify /\ [][NextClassify]_vars

----------------------------------------------------------------------------
(* Direct calls of _calculate_priority: every classification and reason *)

PriorityReasons ==
    {EmptyText,
     <<"Unknown">>,
     <<"Low", "knowledge", "base", "confidence", "(", "30.0%", ")">>,
     <<"Critical", "negative", "issue", "with", "moderate", "KB", "Confidence">>,
     <<"Complaints", "require", "human", "review", "for", "customer", "satisfaction">>,
     <<"Resolution", "error:", "Bedrock", "read", "timeout">>}

InitPriority ==
    /\ \E t \in Tickets : t.user_email = NoneVal /\ t.subject = EmptyText /\ Idle(t)
    /\ RuleIdle
    /\ ClassifyIdle
    /\ SaveIdle
    /\ PairIdle
    /\ \E c \in CategoryReplies \ {NoneVal},
          u \in UrgencyReplies,
          s \in SentimentReplies,
          r \in PriorityReasons :
            priority_in = [classification |-> classification_dict(c, u, s),
                           escalation_reason |-> r]
    /\ priority_out = [called |-> FALSE, value |-> 0]

CalculatePriority ==
    /\ ~priority_out.called
    /\ priority_out' = [called |-> TRUE,
                        value |-> _calculate_priority(priority_in.classification,
                                                      priority_in.escalation_reason)]
    /\ UNCHANGED <<pipeline_vars, rule_vars, classify_vars, priority_in, save_calls, pair_vars>>

NextPriority == CalculatePriority

SpecPriority == InitPriority /\ [][NextPriority]_vars

----------------------------------------------------------------------------
(* Two callers of create_support_ticket on one tickets table *)

TicketIds == {"CHAT-1", "CHAT-2"}

SaveStatuses == {"resolved", "escalated"}

InitSave ==
    /\ \E t \in Tickets : t.user_email = NoneVal /\ t.subject = EmptyText /\ Idle(t)
    /\ RuleIdle
    /\ ClassifyIdle
    /\ PriorityIdle
    /\ PairIdle
    /\ save_calls \in [Callers ->
                        [pc : {"start"}, ticket_id : TicketIds, status : SaveStatuses,
                         user_email : Emails, user_found : {FALSE},
                         ret : {Returned(EmptyDict)}]]

\* the session is open; the look-up of the caller by email (db_tools.py:331-334)
SaveQuery(i) ==
    /\ save_calls[i].pc = "start"
    /\ \E found \in BOOLEAN :
          /\ (save_calls[i].user_email = NoneVal => ~found)
          /\ save_calls' = [save_calls EXCEPT ![i].pc = "queried", ![i].user_found = found]
    /\ UNCHANGED <<pipeline_vars, rule_vars, classify_vars, priority_vars, pair_vars>>

\* session.add and session.commit, the except branch, and the return
SaveCommit(i) ==
    /\ save_calls[i].pc = "queried"
    /\ \E outcome \in SaveOutcomes :
          LET c == save_calls[i]
              saved == create_support_ticket(
                           tickets_table, c.ticket_id, <<"Refund", "request">>,
                           <<"Refund", "request">>, "refund", "medium", c.status,
                           c.user_email, NoneVal, c.user_found, outcome)
          IN /\ tickets_table' = saved.table
             /\ save_calls' = [save_calls EXCEPT
                                  ![i].pc = IF saved.ret.raised THEN "raised" ELSE "returned",
                                  ![i].ret = saved.ret]
    /\ UNCHANGED <<pc, ticket, state, output, calls, trace, failed,
                   rule_vars, classify_vars, priority_vars, pair_vars>>

NextSave == \E i \in Callers : SaveQuery(i) \/ SaveCommit(i)

SpecSave == InitSave /\ [][NextSave]_vars

----------------------------------------------------------------------------
(* Two invocations of run_ticket in one process, interleaved at the steps of
   the graph and of the lazy creation of the cached agents *)

\* run_ticket for one ticket processed alone: the outcome it returns, or the
\* exception it leaves by (graph.py:120-221)
run_ticket(t, replies) ==
    LET s0 == create_initial_state(t.ticket_id, t.subject, t.description,
                                   t.user_email, t.reservation_id)
        s1 == Merge(s0, classifier_node(s0, replies.classifier))
        s2 == Merge(s1, tool_calling_node(s1, replies.kb,
                                          get_user_info(s1.user_email, "ok"),
                                          get_user_reservations(s1.user_email, "ok"),
                                          get_user_tickets(s1.user_email, "ok"),
                                          get_reservation_info(s1.reservation_id, "ok")))
        s3 == Merge(s2, resolver_node(s2, replies.resolver))
        esc == escalation_node(s3, replies.escalation)
        s4 == IF route_from_resolver(s3) = "escalate"
              THEN Merge(s3, esc.value) ELSE Merge(s3, response_node(s3))
        saved == create_support_ticket(
                     <<>>, t.ticket_id, t.subject, t.description,
                     Get(s4, "category", "general"),
                     urgency_to_priority(Get(s4, "urgency", "medium")),
                     db_status(s4), t.user_email, t.reservation_id, TRUE, replies.save)
    IN IF route_from_resolver(s3) = "escalate" /\ esc.raised
       THEN Raised(esc.error)
       ELSE Returned(save_output(format_output(s4), saved.ret))

\* the state a node of invocation r is given (the state of its own invoke)
current_state_shared(rs, r) == rs[1].state

current_state(rs, r) == rs[r].state

\* the global a node's getter reads and sets
handle_of(position) ==
    CASE position = "Classifying" -> "classifier"
      [] position = "Resolving" -> "resolver"
      [] position = "Escalating" -> "escalation_agent"

\* the instance an invocation constructs
new_agent(r) == IF r = 1 THEN "agent-1" ELSE "agent-2"

InGetter(r) == runs[r].pc \in {"Classifying", "Resolving", "Escalating"}

InitPair ==
    /\ \E t \in Tickets : t.user_email = NoneVal /\ t.subject = EmptyText /\ Idle(t)
    /\ RuleIdle
    /\ ClassifyIdle
    /\ PriorityIdle
    /\ SaveIdle
    /\ handles = NoHandles
    /\ \E x1 \in PairReplies, x2 \in PairReplies :
          runs = [r \in Runs |-> RunAt(r, "Classifying", IF r = 1 THEN x1 ELSE x2)]

pair_rest == <<pipeline_vars, rule_vars, classify_vars, priority_vars, save_calls>>

pair_rest_but_table == <<pc, ticket, state, output, calls, trace, failed, rule_vars, classify_vars, priority_vars, save_calls>>

\* get_classifier / get_resolver / get_escalation_agent: "if _x is None"
GetAgentCheck(r) ==
    /\ InGetter(r) /\ runs[r].sub = "check"
    /\ runs' = [runs EXCEPT ![r].sub =
                    IF handles[handle_of(runs[r].pc)] = NoneVal THEN "create" ELSE "return"]
    /\ UNCHANGED <<handles, pair_rest>>

\* "_x = X()"
GetAgentCreate(r) ==
    /\ InGetter(r) /\ runs[r].sub = "create"
    /\ handles' = [handles EXCEPT ![handle_of(runs[r].pc)] = new_agent(r)]
    /\ runs' = [runs EXCEPT ![r].sub = "return",
                            ![r].made = runs[r].made \cup {handle_of(runs[r].pc)}]
    /\ UNCHANGED pair_rest

\* "return _x"
GetAgentReturn(r) ==
    /\ InGetter(r) /\ runs[r].sub = "return"
    /\ runs' = [runs EXCEPT ![r].sub = "call", ![r].agent = handles[handle_of(runs[r].pc)]]
    /\ UNCHANGED <<handles, pair_rest>>

PairClassifying(r) ==
    /\ runs[r].pc = "Classifying" /\ runs[r].sub = "call"
    /\ LET st == current_state(runs, r) IN
       runs' = [runs EXCEPT
                   ![r].state = Merge(runs[r].state,
                                      classifier_node(st, runs[r].replies.classifier)),
                   ![r].pc = "Gathering"]
    /\ UNCHANGED <<handles, pair_rest>>

PairGathering(r) ==
    /\ runs[r].pc = "Gathering"
    /\ LET st == current_state(runs, r)
           new == Merge(runs[r].state,
                        tool_calling_node(st, runs[r].replies.kb,
                                          get_user_info(st.user_email, "ok"),
                                          get_user_reservations(st.user_email, "ok"),
                                          get_user_tickets(st.user_email, "ok"),
                                          get_reservation_info(st.reservation_id, "ok")))
       IN runs' = [runs EXCEPT
                      ![r].state = new,
                      ![r].pc = "Resolving",
                      ![r].sub = IF resolver_calls_llm(new) THEN "check" ELSE "call"]
    /\ UNCHANGED <<handles, pair_rest>>

PairResolving(r) ==
    /\ runs[r].pc = "Resolving" /\ runs[r].sub = "call"
    /\ LET st == current_state(runs, r) IN
       runs' = [runs EXCEPT
                   ![r].state = Merge(runs[r].state,
                                      resolver_node(st, runs[r].replies.resolver)),
                   ![r].pc = "Routing"]
    /\ UNCHANGED <<handles, pair_rest>>

PairRouting(r) ==
    /\ runs[r].pc = "Routing"
    /\ runs' = [runs EXCEPT
                   ![r].pc = IF route_from_resolver(current_state(runs, r)) = "escalate"
                             THEN "Escalating" ELSE "Responding",
                   ![r].sub = "check"]
    /\ UNCHANGED <<handles, pair_rest>>

PairEscalating(r) ==
    /\ runs[r].pc = "Escalating" /\ runs[r].sub = "call"
    /\ LET e == escalation_node(current_state(runs, r), runs[r].replies.escalation) IN
       runs' = IF e.raised
               THEN [runs EXCEPT ![r].pc = "Raised"]
               ELSE [runs EXCEPT ![r].state = Merge(runs[r].state, e.value),
                                 ![r].pc = "Done"]
    /\ UNCHANGED <<handles, pair_rest>>

PairResponding(r) ==
    /\ runs[r].pc = "Responding"
    /\ runs' = [runs EXCEPT
                   ![r].state = Merge(runs[r].state, response_node(current_state(runs, r))),
                   ![r].pc = "Done"]
    /\ UNCHANGED <<handles, pair_rest>>

PairFormatOutput(r) ==
    /\ runs[r].pc = "Done"
    /\ runs' = [runs EXCEPT ![r].output = format_output(current_state(runs, r)),
                            ![r].pc = "Saving"]
    /\ UNCHANGED <<handles, pair_rest>>

PairSaveTicket(r) ==
    /\ runs[r].pc = "Saving"
    /\ LET st == current_state(runs, r)
           t == runs[r].ticket
           saved == create_support_ticket(
                        tickets_table, t.ticket_id, t.subject, t.description,
                        Get(st, "category", "general"),
                        urgency_to_priority(Get(st, "urgency", "medium")),
                        db_status(st), t.user_email, t.reservation_id, TRUE,
                        runs[r].replies.save)
       IN /\ tickets_table' = saved.table
          /\ runs' = [runs EXCEPT ![r].output = save_output(runs[r].output, saved.ret),
                                  ![r].pc = "Returned"]
    /\ UNCHANGED <<handles, pair_rest_but_table>>

NextPair ==
    \E r \in Runs :
        \/ GetAgentCheck(r)
        \/ GetAgentCreate(r)
        \/ GetAgentReturn(r)
        \/ PairClassifying(r)
        \/ PairGathering(r)
        \/ PairResolving(r)
        \/ PairRouting(r)
        \/ PairEscalating(r)
        \/ PairResponding(r)
        \/ PairFormatOutput(r)
        \/ PairSaveTicket(r)

SpecPair == InitPair /\ [][NextPair]_vars

----------------------------------------------------------------------------
(* Properties *)

Range(f) == {f[i] : i \in DOMAIN f}

IsPrefix(a, b) == Len(a) <= Len(b) /\ SubSeq(b, 1, Len(a)) = a

Entered(stage) == Cardinality({i \in DOMAIN trace : trace[i] = stage})

TerminalStatuses == {"resolved", "escalated"}

\* C1: every invocation of run_ticket ends by returning an outcome whose
\* final_status is resolved or escalated, whatever the external collaborators
\* do; no failure makes run_ticket leave by an exception.
C1_TotalCompletion ==
    /\ pc # "Raised"
    /\ pc = "Returned" => output.final_status \in TerminalStatuses

\* C2: the final_status of a returned outcome is exactly one of resolved and
\* escalated, exactly one of the Responding and Escalating stages ran (the one
\* that matches the status), and final_status, once set, is not set again.
C2_ExactlyOneTerminalStatus ==
    /\ [](/\ state.final_status \in TerminalStatuses \cup {""}
          /\ pc = "Returned" =>
                /\ output.final_status \in TerminalStatuses
                /\ output.final_status = state.final_status
                /\ Entered("Escalating") + Entered("Responding") = 1
                /\ output.final_status = "escalated" <=> Entered("Escalating") = 1)
    /\ [][/\ state.final_status # "" => state'.final_status = state.final_status
          /\ "final_status" \in DOMAIN output =>
                output'.final_status = output.final_status]_vars

C2_Witness ==
    /\ pc = "Returned"
    /\ output.final_status = "resolved"
    /\ Entered("Responding") = 1
    /\ Entered("Escalating") = 0

\* C3: called with category complaint, the rule engine returns escalate = true
\* whatever the confidence, result count, response, urgency, sentiment and
\* tool results are.
C3_ComplaintAlwaysEscalates ==
    (rule_out.called /\ Get(rule_in.classification, "category", "general") = "complaint")
        => rule_out.escalate

C3_Witness ==
    /\ rule_out.called
    /\ Get(rule_in.classification, "category", "general") = "complaint"
    /\ rule_in.rag_confidence = 900
    /\ Len(rule_in.kb_results.v) = 1
    /\ rule_in.response_text = <<"Your", "refund", "will", "arrive", "in", "5", "days">>
    /\ rule_out.escalate

\* C4 as stated: called with a confidence below 0.5, the rule engine escalates,
\* for every category (complaint included), with a reason that contains the
\* numeric confidence value.
C4_LowConfidenceReasonHasValue ==
    (rule_out.called /\ rule_in.rag_confidence < 500)
        => /\ rule_out.escalate
           /\ FormatPercent1(rule_in.rag_confidence) \in Range(rule_out.reason)

\* C4 as amended: called with a confidence below 0.5, the rule engine
\* escalates for every category; the reason contains the numeric confidence
\* value for every category other than complaint, and for complaint it is the
\* reason of rule 1, which carries no value.
C4_LowConfidenceEscalates ==
    (rule_out.called /\ rule_in.rag_confidence < 500)
        => /\ rule_out.escalate
           /\ IF Get(rule_in.classification, "category", "general") = "complaint"
              THEN rule_out.reason = <<"Complaints", "require", "human", "review", "for",
                                       "customer", "satisfaction">>
              ELSE FormatPercent1(rule_in.rag_confidence) \in Range(rule_out.reason)

C4_Witness ==
    /\ rule_out.called
    /\ rule_in.rag_confidence = 300
    /\ Get(rule_in.classification, "category", "general") = "refund"
    /\ rule_out.escalate
    /\ "30.0%" \in Range(rule_out.reason)

LookupTools ==
    {"get_user_info", "get_user_reservations", "get_user_tickets", "get_reservation_info"}

CallerKnown == ticket.user_email # NoneVal /\ ticket.user_email # ""

\* C5 as stated: for a ticket classified off_topic no knowledge-base search
\* and no data-store read is invoked at any point before the outcome is
\* returned, and final_status is resolved.
C5_OffTopicNoReads ==
    state.category = "off_topic" =>
        /\ calls.search_knowledge_base = 0
        /\ \A op \in LookupTools \cup {"user_by_email"} : calls[op] = 0
        /\ pc # "Raised"
        /\ pc = "Returned" => output.final_status = "resolved"

\* C5 as amended: for a ticket classified off_topic no knowledge-base search
\* and none of the four lookups of the Context Gatherer is invoked, and
\* final_status is resolved; the only data-store read of the run is the
\* look-up of the caller by email that the persistence write performs when a
\* caller email is present.
C5_OffTopicNoLookups ==
    state.category = "off_topic" =>
        /\ calls.search_knowledge_base = 0
        /\ \A op \in LookupTools : calls[op] = 0
        /\ calls.user_by_email = IF pc = "Returned" /\ CallerKnown THEN 1 ELSE 0
        /\ pc # "Raised"
        /\ pc = "Returned" => output.final_status = "resolved"

C5_Witness ==
    /\ pc = "Returned"
    /\ state.category = "off_topic"
    /\ CallerKnown
    /\ ticket.reservation_id # NoneVal
    /\ output.final_status = "resolved"
    /\ calls.user_by_email = 1

EscalatePath == <<"Classifying", "Gathering", "Resolving", "Routing", "Escalating", "Done">>
RespondPath == <<"Classifying", "Gathering", "Resolving", "Routing", "Responding", "Done">>

\* C6: every run visits Classifying, Gathering, Resolving, Routing, exactly one
\* of Escalating and Responding, then Done, each once and none skipped; and
\* Escalating is entered iff the status at Routing is escalated.
C6_StageOrder ==
    /\ IsPrefix(trace, EscalatePath) \/ IsPrefix(trace, RespondPath)
    /\ pc \in {"Saving", "Returned", "Raised"} => trace[Len(trace)] = "Done"
    /\ Len(trace) >= 5 => (trace[5] = "Escalating" <=> state.status = "escalated")

\* C7: when the resolution model call fails, resolve does not raise; it
\* returns status escalated, a reason made of "Resolution error:" and the
\* details of the failure, and an empty response, and the ticket goes through
\* Routing to Escalating.
C7_ResolutionFailureEscalates ==
    "resolution_llm" \in failed =>
        /\ Entered("Routing") = 1
        /\ state.status = "escalated"
        /\ state.escalation_reason = <<"Resolution", "error:">> \o LlmError
        /\ state.response = EmptyText
        /\ pc # "Routing" => Entered("Escalating") = 1 /\ Entered("Responding") = 0

C7_Witness ==
    /\ "resolution_llm" \in failed
    /\ pc = "Escalating"
    /\ state.status = "escalated"
    /\ state.escalation_reason = <<"Resolution", "error:", "Bedrock", "read", "timeout">>

\* C8: when the escalation-message model call fails, the pipeline does not
\* fail: the ticket reaches Done and the outcome is returned with final_status
\* escalated and a holding message as customer message and final_response.
C8_EscalationMessageFallback ==
    "escalation_llm" \in failed =>
        /\ pc # "Raised"
        /\ pc = "Returned" =>
              /\ output.final_status = "escalated"
              /\ output.final_response # EmptyText
              /\ output.final_response = output.escalation_details.customer_message

\* the substring from the first "{" to the last "}" is one JSON object
ParsesAsObject(t) ==
    \E i \in 1..Len(t) :
        /\ t[i].c = "{"
        /\ \A j \in 1..(i - 1) : t[j].c # "{"
        /\ i + 2 <= Len(t)
        /\ t[i + 1].c = "body"
        /\ t[i + 2].c = "}"
        /\ \A j \in (i + 3)..Len(t) : t[j].c # "}"

ReplyUnusable(reply) == reply.raised \/ ~ParsesAsObject(reply.content)

\* C9: classify returns for every subject and description (empty ones
\* included) and every model outcome; when the model call fails or the reply
\* does not hold a JSON object between its first "{" and its last "}", the
\* classification is general / medium / neutral with a summary that explains
\* the failure.
C9_ClassifyDegrades ==
    (classify_out.called /\ ReplyUnusable(classify_in.reply)) =>
        /\ classify_out.value.category = "general"
        /\ classify_out.value.urgency = "medium"
        /\ classify_out.value.sentiment = "neutral"
        /\ IsPrefix(<<"Classification", "error:">>, classify_out.value.summary)
        /\ Len(classify_out.value.summary) > 2

C9_Witness ==
    /\ classify_out.called
    /\ classify_in.subject = EmptyText
    /\ classify_in.description = EmptyText
    /\ ~classify_in.reply.raised
    /\ Len(classify_in.reply.content) = 2
    /\ classify_in.reply.content[1].c = "{"
    /\ classify_out.value.category = "general"
    /\ classify_out.value.summary[1] = "Classification"

\* C10: when the persistence write fails (it raises, or reports success =
\* false) the returned outcome has ticket_saved = false, and its final_status,
\* final_response, classification and escalation details are those computed
\* before the write was attempted.
C10_SaveFailureKeepsOutcome ==
    [][(pc = "Saving" /\ "create_support_ticket" \in failed') =>
          /\ pc' = "Returned"
          /\ output'.ticket_saved = FALSE
          /\ output'.final_status = output.final_status
          /\ output'.final_response = output.final_response
          /\ output'.classification = output.classification
          /\ ("escalation_details" \in DOMAIN output') = ("escalation_details" \in DOMAIN output)
          /\ "escalation_details" \in DOMAIN output =>
                output'.escalation_details = output.escalation_details]_vars

C10_Witness ==
    /\ pc = "Returned"
    /\ "create_support_ticket" \in failed
    /\ output.ticket_saved = FALSE
    /\ "ticket_save_error" \in DOMAIN output
    /\ output.final_status = "escalated"
    /\ output.final_status = state.final_status

RowsWith(id) == {i \in DOMAIN tickets_table : tickets_table[i].ticket_id = id}

SaveFinished(i) == save_calls[i].pc \in {"returned", "raised"}

Committed(i) ==
    /\ save_calls[i].pc = "returned"
    /\ Get(save_calls[i].ret.value, "success", FALSE)

\* C11: two calls of create_support_ticket with the same ticket_id, one after
\* the other or interleaved, leave exactly one row with that ticket_id once one
\* of them has committed; the other call adds no row and does not report
\* success. No ticket_id ever has two rows.
C11_SaveIdempotentOnId ==
    /\ \A id \in TicketIds : Cardinality(RowsWith(id)) <= 1
    /\ \A i, j \in Callers :
          (i # j /\ save_calls[i].ticket_id = save_calls[j].ticket_id /\ Committed(i))
              => /\ Cardinality(RowsWith(save_calls[i].ticket_id)) = 1
                 /\ ~Committed(j)

C11_Witness ==
    /\ save_calls[1].pc = "returned"
    /\ save_calls[2].pc = "returned"
    /\ save_calls[1].ticket_id = save_calls[2].ticket_id
    /\ save_calls[1].status # save_calls[2].status
    /\ Committed(2)
    /\ ~Committed(1)
    /\ Len(tickets_table) = 1
    /\ tickets_table[1].status = save_calls[2].status

\* C12: _calculate_priority returns one value in {1, 2, 3, 4} for every
\* classification (unrecognised and missing category, urgency and sentiment
\* included) and every reason, and it returns 1 whenever urgency is critical.
C12_PriorityTotal ==
    priority_out.called =>
        /\ priority_out.value \in 1..4
        /\ Get(priority_in.classification, "urgency", "medium") = "critical"
              => priority_out.value = 1

C12_Witness ==
    /\ priority_out.called
    /\ Get(priority_in.classification, "urgency", "medium") = "critical"
    /\ Get(priority_in.classification, "sentiment", "neutral") = "positive"
    /\ Get(priority_in.classification, "category", "general") = "billing"
    /\ Contains(Lower(priority_in.escalation_reason), <<"confidence">>)
    /\ priority_out.value = 1

\* relevance score of the best match the search returned (0 when it returned none)
TopScore(st) ==
    LET kb == Get(st.tool_results, "kb_results", PyList(<<>>)) IN
    IF Len(kb.v) > 0 THEN Get(kb.v[1], "relevance_score", 0) ELSE 0

Hedges(text) == \E marker \in insufficient_markers : Contains(Lower(text), marker)

Gathered == {"search_knowledge_base"} \cup LookupTools

\* C13: when the classification is refund, the search returns a best match
\* with relevance score 0.8, the response has no hedging phrase and no lookup
\* and no model call fails, the outcome run_ticket returns has final_status
\* resolved and no escalation details (no package, no priority).
C13_RefundHighConfidenceResolves ==
    (/\ pc = "Returned"
     /\ state.category = "refund"
     /\ failed \subseteq {"create_support_ticket"}
     /\ TopScore(state) = 800
     /\ ~Hedges(state.response))
        => /\ output.final_status = "resolved"
           /\ "escalation_details" \notin DOMAIN output

\* C14: a ticket classified complaint whose best match has relevance score
\* 0.9, the resolution call succeeding, ends with final_status escalated,
\* escalation priority 1 and escalation reason "complaints require human
\* review".
C14_ComplaintScenario ==
    (/\ pc \in {"Returned", "Raised"}
     /\ state.category = "complaint"
     /\ failed \cap (Gathered \cup {"resolution_llm"}) = {}
     /\ TopScore(state) = 900)
        => /\ pc = "Returned"
           /\ output.final_status = "escalated"
           /\ output.escalation_details.priority = 1
           /\ output.escalation_details.escalation_reason =
                  <<"complaints", "require", "human", "review">>

\* the entry is what the Context Gatherer stores when a list-valued lookup raises
HasErrorMarker(val) ==
    val.type = "list" /\ Len(val.v) > 0 /\ "error" \in DOMAIN val.v[1]

RuleCategory == Get(rule_in.classification, "category", "general")
RuleUrgency == Get(rule_in.classification, "urgency", "medium")
RuleSentiment == Get(rule_in.classification, "sentiment", "neutral")

HedgingPhrases ==
    {<<"don't", "have", "enough", "information">>,
     <<"don't", "have", "that", "information">>,
     <<"connect", "you", "with", "a", "specialist">>,
     <<"unable", "to", "resolve">>,
     <<"need", "to", "escalate">>,
     <<"let", "me", "connect", "you">>}

\* the conditions of the six rules on the arguments of the call
RuleHolds(n) ==
    CASE n = 1 -> RuleCategory = "complaint"
      [] n = 2 -> rule_in.rag_confidence < 500
      [] n = 3 -> Len(rule_in.kb_results.v) = 0
      [] n = 4 -> \E phrase \in HedgingPhrases :
                     Contains(Lower(rule_in.response_text), phrase)
      [] n = 5 -> /\ RuleUrgency = "critical"
                  /\ RuleSentiment = "negative"
                  /\ rule_in.rag_confidence < 700
      [] n = 6 -> /\ RuleCategory \in {"refund", "cancellation"}
                  /\ \E k \in DOMAIN rule_in.tool_results :
                        /\ rule_in.tool_results[k].type = "str"
                        /\ Contains(Lower(rule_in.tool_results[k].v), <<"error">>)

\* C15: with category refund or cancellation and a caller email, when the
\* caller-reservations lookup fails the tool results hold an error marker
\* under user_reservations, and if none of rules 1-5 fires the rule engine
\* escalates with a reason citing the tool error.
C15_ToolErrorEscalates ==
    (/\ rule_out.called
     /\ RuleCategory \in {"refund", "cancellation"}
     /\ "user_reservations" \in DOMAIN rule_in.tool_results)
        => /\ HasErrorMarker(rule_in.tool_results["user_reservations"])
           /\ (\A n \in 1..5 : ~RuleHolds(n))
                 => /\ rule_out.escalate
                    /\ IsPrefix(<<"Tool", "error">>, rule_out.reason)

\* C16: for a ticket classified off_topic the resolution model and the rule
\* engine are never invoked, Routing chooses Responding and never Escalating,
\* and final_response is the decline message set at the Gathering stage.
C16_OffTopicShortCircuit ==
    state.category = "off_topic" =>
        /\ calls.resolution_llm = 0
        /\ calls.rule_engine = 0
        /\ Entered("Escalating") = 0
        /\ pc \notin {"Classifying", "Gathering", "Resolving", "Routing"}
              => Entered("Routing") = 1 /\ Entered("Responding") = 1
        /\ pc \in {"Saving", "Returned"}
              => /\ output.final_response = OffTopicResponse
                 /\ output.final_status = "resolved"

C16_Witness ==
    /\ pc = "Returned"
    /\ state.category = "off_topic"
    /\ Entered("Routing") = 1
    /\ Entered("Responding") = 1
    /\ calls.resolution_llm = 0
    /\ output.final_response = OffTopicResponse

\* the object between the first "{" and the last "}" of a usable reply
ReplyBody(reply) == reply.content[Find(reply.content, "{") + 2].obj

\* the reply names a category the code recognises (in any letter case)
RepliedCategory(reply) ==
    LET body == ReplyBody(reply) IN
    IF "category" \in DOMAIN body /\ body["category"].type = "str"
    THEN LowerWord(body["category"].v) ELSE Missing

C18_UrgencySentimentEnumerated ==
    classify_out.called =>
        /\ classify_out.value.urgency \in TICKET_URGENCY
        /\ classify_out.value.sentiment \in TICKET_SENTIMENT
        /\ classify_out.stored.urgency \in TICKET_URGENCY
        /\ classify_out.stored.sentiment \in TICKET_SENTIMENT

\* the lowest-numbered rule whose condition holds, 0 when none does
FirstRule == IF \E n \in 1..6 : RuleHolds(n)
             THEN CHOOSE n \in 1..6 : RuleHolds(n) /\ \A m \in 1..(n - 1) : ~RuleHolds(m)
             ELSE 0

\* how the reason of each rule begins
RuleReason(n) ==
    CASE n = 1 -> <<"Complaints", "require", "human", "review">>
      [] n = 2 -> <<"Low", "knowledge", "base", "confidence", "(",
                    FormatPercent1(rule_in.rag_confidence)>>
      [] n = 3 -> <<"No", "relevant", "knowledge", "base", "articles", "found">>
      [] n = 4 -> <<"Response", "indicates", "need", "for", "specialist", "assistance">>
      [] n = 5 -> <<"Critical", "negative", "issue", "with", "moderate", "KB", "confidence",
                    "(", FormatPercent1(rule_in.rag_confidence)>>
      [] n = 6 -> <<"Tool", "error", "in", "critical", "category:">>

\* C20: _should_escalate returns the outcome of the lowest-numbered of the six
\* rules whose condition holds (escalate, with that rule's reason), and
\* (false, empty reason) exactly when none of the six holds.
C20_FirstMatchingRuleWins ==
    rule_out.called =>
        /\ rule_out.escalate <=> FirstRule # 0
        /\ IF FirstRule = 0
           THEN rule_out.reason = EmptyText
           ELSE IsPrefix(RuleReason(FirstRule), rule_out.reason)

C20_Witness ==
    /\ rule_out.called
    /\ \A n \in 1..5 : ~RuleHolds(n)
    /\ RuleHolds(6)
    /\ rule_out.escalate
    /\ rule_out.reason = <<"Tool", "error", "in", "critical", "category:",
                           "Error", "connection", "refused">>

\* C19: two tickets processed concurrently by run_ticket, under every
\* interleaving of the steps of their graphs and of the lazy creation of the
\* cached agents, each end as they do when processed alone with the same
\* collaborator replies (the same outcome, or the same exception); every node
\* is handed an agent, a state keeps its own ticket, and no step of one
\* invocation changes anything of the other.
C19_RunsIndependent ==
    /\ [](\A r \in Runs :
            /\ runs[r].pc = "Returned" =>
                  LET alone == run_ticket(runs[r].ticket, runs[r].replies) IN
                  ~alone.raised /\ runs[r].output = alone.value
            /\ runs[r].pc = "Raised" => run_ticket(runs[r].ticket, runs[r].replies).raised
            /\ (InGetter(r) /\ runs[r].sub = "call") => runs[r].agent # NoneVal
            /\ runs[r].state.ticket_id = runs[r].ticket.ticket_id)
    /\ [][\A r \in Runs :
            runs'[r] # runs[r] => \A q \in Runs \ {r} : runs'[q] = runs[q]]_vars

C19_Witness ==
    /\ runs[1].pc = "Returned"
    /\ runs[2].pc = "Returned"
    /\ "classifier" \in runs[1].made
    /\ "classifier" \in runs[2].made
    /\ runs[1].output.final_status = "escalated"
    /\ runs[2].output.final_status = "resolved"
    /\ runs[1].output.ticket_saved
    /\ runs[2].output.ticket_saved
    /\ Len(tickets_table) = 2

\* the key of tool_results each operation of the Context Gatherer fills
KeyOf(op) ==
    CASE op = "search_knowledge_base" -> "kb_results"
      [] op = "get_user_info" -> "user_info"
      [] op = "get_user_reservations" -> "user_reservations"
      [] op = "get_user_tickets" -> "user_support_tickets"
      [] op = "get_reservation_info" -> "reservation_info"

CallerLookups == {"get_user_info", "get_user_reservations", "get_user_tickets"}

ReservationKnown == ticket.reservation_id # NoneVal /\ ticket.reservation_id # ""

PastGathering == Entered("Resolving") = 1

OffTopic == state.category = "off_topic"

\* C21: for a non-off-topic ticket the rag_confidence the rule engine uses and
\* the outcome reports is the relevance score the search returned for its
\* top-ranked match, and 0.0 when the search returned no match.
C21_ConfidenceIsTopScore ==
    (PastGathering /\ ~OffTopic) =>
        /\ state.rag_confidence = TopScore(state)
        /\ pc \in {"Saving", "Returned"} => output.rag_confidence = TopScore(state)

\* C22: for a non-off-topic ticket with a caller email, each of the three
\* caller lookups is attempted whatever the other lookups and the search did;
\* after Gathering tool_results holds an entry for the search and for each of
\* them, and the pipeline has gone on to Resolving.
C22_LookupFailuresIsolated ==
    /\ (pc # "Gathering" /\ Entered("Gathering") = 1) => PastGathering
    /\ (PastGathering /\ ~OffTopic /\ CallerKnown) =>
          \A op \in CallerLookups \cup {"search_knowledge_base"} :
              /\ calls[op] = 1
              /\ KeyOf(op) \in DOMAIN state.tool_results

C22_Witness ==
    /\ pc = "Resolving"
    /\ state.category = "refund"
    /\ CallerKnown
    /\ {"search_knowledge_base", "get_user_info"} \subseteq failed
    /\ "get_user_reservations" \notin failed
    /\ "get_user_tickets" \in failed
    /\ state.tool_results["user_info"].v = [error |-> DbError]
    /\ Len(state.tool_results["user_reservations"].v) = 1
    /\ "user_support_tickets" \in DOMAIN state.tool_results

Invoked(op) == calls[op] = 1

\* C23 as stated: the Context Gatherer invokes the reservation lookup iff the
\* category is refund, cancellation or complaint and a reservation id is
\* present, the three caller lookups iff a caller email is present, and the
\* search iff the category is not off_topic.
C23_LookupSelection ==
    PastGathering =>
        /\ Invoked("get_reservation_info") <=>
              (state.category \in {"refund", "cancellation", "complaint"} /\ ReservationKnown)
        /\ \A op \in CallerLookups : Invoked(op) <=> CallerKnown
        /\ Invoked("search_knowledge_base") <=> ~OffTopic

\* C23 as amended: the same, except that the three caller lookups are invoked
\* iff a caller email is present and the category is not off_topic.
C23_LookupSelectionNotOffTopic ==
    PastGathering =>
        /\ \A op \in Gathered : calls[op] \in {0, 1}
        /\ Invoked("get_reservation_info") <=>
              (state.category \in {"refund", "cancellation", "complaint"} /\ ReservationKnown)
        /\ \A op \in CallerLookups : Invoked(op) <=> (CallerKnown /\ ~OffTopic)
        /\ Invoked("search_knowledge_base") <=> ~OffTopic

C23_Witness ==
    /\ pc = "Resolving"
    /\ state.category = "complaint"
    /\ CallerKnown
    /\ ReservationKnown
    /\ \A op \in Gathered : Invoked(op)

\* C24: in one run_ticket execution each external operation is invoked at
\* most once; a call that failed is not issued again.
C24_AtMostOneCall ==
    \A op \in DOMAIN calls : calls[op] <= 1

C24_Witness ==
    /\ pc = "Returned"
    /\ {"search_knowledge_base", "get_user_info", "get_reservation_info",
         "resolution_llm", "create_support_ticket"} \subseteq failed
    /\ \A op \in DOMAIN calls \ {"rule_engine"} : calls[op] = 1

\* the lookups the selection policy picks for the ticket
SelectedLookups ==
    IF OffTopic THEN {}
    ELSE {"search_knowledge_base"}
         \cup (IF CallerKnown THEN CallerLookups ELSE {})
         \cup (IF state.category \in {"refund", "cancellation", "complaint"} /\ ReservationKnown
               THEN {"get_reservation_info"} ELSE {})

\* C25: the resolution model call starts only in a state where every lookup
\* selected for the ticket has been made (it returned or failed) and
\* tool_results holds an entry for each of them.
C25_ResolveAfterLookups ==
    [][calls'.resolution_llm > calls.resolution_llm =>
          \A op \in SelectedLookups :
              /\ calls[op] = 1
              /\ KeyOf(op) \in DOMAIN state.tool_results]_vars

C25_Witness ==
    /\ calls.resolution_llm = 1
    /\ state.category = "cancellation"
    /\ SelectedLookups = Gathered
    /\ {"get_reservation_info", "get_user_tickets"} \subseteq failed
    /\ state.tool_results["reservation_info"].v = [error |-> DbError]
    /\ \A op \in Gathered : KeyOf(op) \in DOMAIN state.tool_results

\* run_ticket has built the outcome it returns
OutcomeBuilt == pc \in {"Saving", "Returned"}

\* C26: the outcome run_ticket returns contains escalation details (package,
\* priority in 1..4, customer message, reason) iff its final_status is
\* escalated; when final_status is resolved the escalation reason is empty and
\* no escalation package was created.
C26_DetailsIffEscalated ==
    OutcomeBuilt =>
        /\ output.final_status \in {"resolved", "escalated"}
        /\ "escalation_details" \in DOMAIN output <=> output.final_status = "escalated"
        /\ output.final_status = "escalated" =>
              LET d == output.escalation_details IN
              /\ DOMAIN d = {"priority", "customer_message", "escalation_reason",
                             "escalation_package"}
              /\ d.priority \in 1..4
              /\ d.escalation_reason = state.escalation_reason
              /\ d.escalation_reason # EmptyText
              /\ d.customer_message = state.customer_message
              /\ d.escalation_package # EmptyDict
              /\ d.escalation_package.escalation_info.priority = d.priority
              /\ d.escalation_package.escalation_info.reason = d.escalation_reason
        /\ output.final_status = "resolved" =>
              /\ state.escalation_reason = EmptyText
              /\ state.escalation_package = EmptyDict
              /\ calls.escalation_llm = 0

C26_Witness ==
    /\ pc = "Returned"
    /\ output.final_status = "escalated"
    /\ output.escalation_details.priority = 2
    /\ output.escalation_details.escalation_package.escalation_info.priority = 2

\* the level name of a queue priority (the words of _get_priority_label)
PriorityLevel(p) ==
    CASE p = 1 -> "critical" [] p = 2 -> "high" [] p = 3 -> "medium" [] p = 4 -> "low"

\* the run's write was committed
TicketSaved == pc = "Returned" /\ "create_support_ticket" \notin failed

\* C27 as stated: the ticket record written at pipeline exit has the status
\* returned to the caller and the classification category, and for an
\* escalated ticket its priority is the one the Escalation Packager computed.
C27_RecordCarriesPackagerPriority ==
    TicketSaved =>
        \A i \in RowsWith(ticket.ticket_id) :
            /\ tickets_table[i].status = output.final_status
            /\ tickets_table[i].category = state.category
            /\ output.final_status = "escalated" =>
                  tickets_table[i].priority = PriorityLevel(state.escalation_priority)

\* C27 as amended: the record has the status returned to the caller and the
\* classification category, and its priority is the classification urgency
\* when that is low, medium, high or critical and "medium" otherwise,
\* escalated or not.
C27_RecordCarriesUrgency ==
    TicketSaved =>
        /\ Cardinality(RowsWith(ticket.ticket_id)) = 1
        /\ \A i \in RowsWith(ticket.ticket_id) :
              /\ tickets_table[i].status = output.final_status
              /\ tickets_table[i].category = state.category
              /\ tickets_table[i].category = output.classification.category
              /\ tickets_table[i].priority =
                    (IF state.urgency \in {"low", "medium", "high", "critical"}
                     THEN state.urgency ELSE "medium")

C27_Witness ==
    /\ TicketSaved
    /\ output.final_status = "escalated"
    /\ state.category = "complaint"
    /\ state.urgency = "low"
    /\ state.escalation_priority = 1
    /\ \E i \in RowsWith(ticket.ticket_id) :
          tickets_table[i].priority = "low" /\ tickets_table[i].status = "escalated"

NoMatchReason == <<"Low", "knowledge", "base", "confidence", "(", "0.0%", ")">>

Rule3Reason == <<"No", "relevant", "knowledge", "base", "articles", "found">>

\* the search returned, with zero matches
NoMatches ==
    /\ "search_knowledge_base" \notin failed
    /\ "kb_results" \in DOMAIN state.tool_results
    /\ state.tool_results["kb_results"].v = <<>>

\* C28: when the search returns zero matches for a ticket that is neither
\* complaint nor off_topic and the resolution call succeeds, the ticket is
\* escalated with the low-confidence reason of rule 2; the rule-3 reason is
\* never the escalation reason of a run.
C28_NoMatchesIsLowConfidence ==
    /\ state.escalation_reason # Rule3Reason
    /\ (OutcomeBuilt /\ "escalation_details" \in DOMAIN output) =>
          output.escalation_details.escalation_reason # Rule3Reason
    /\ (Entered("Routing") = 1 /\ NoMatches /\ state.category \notin {"complaint", "off_topic"}
          /\ "resolution_llm" \notin failed) =>
          /\ state.status = "escalated"
          /\ state.escalation_reason = NoMatchReason
          /\ OutcomeBuilt => /\ output.final_status = "escalated"
                              /\ output.escalation_details.escalation_reason = NoMatchReason

C28_Witness ==
    /\ pc = "Returned"
    /\ NoMatches
    /\ state.category = "refund"
    /\ "resolution_llm" \notin failed
    /\ ~Hedges(state.response)
    /\ output.final_status = "escalated"
    /\ output.escalation_details.escalation_reason = NoMatchReason

\* C29: a ticket escalated by rule 2 or by rule 5 gets escalation priority 1,
\* 2 or 3 and never 4, whatever its urgency and sentiment, since the reason
\* of either rule contains "confidence".
C29_ConfidenceRulesNeverP4 ==
    (rule_out.called /\ FirstRule \in {2, 5}) =>
        /\ rule_out.escalate
        /\ Contains(Lower(rule_out.reason), <<"confidence">>)
        /\ rule_out.priority \in 1..3

C29_Witness ==
    /\ rule_out.called
    /\ FirstRule = 2
    /\ RuleUrgency = "low"
    /\ RuleSentiment = "positive"
    /\ rule_out.priority = 3

\* C30: on the escalated path final_response is the holding customer_message
\* of the Escalation Packager and not the resolver's candidate response; on
\* the resolved path final_response is the response the state held when
\* Resolving finished, and no later stage changes that response.
C30_FinalResponseByPath ==
    /\ [](OutcomeBuilt =>
            /\ output.final_status = "escalated" =>
                  /\ output.final_response = state.customer_message
                  /\ output.final_response = output.escalation_details.customer_message
                  /\ output.final_response # state.response
            /\ output.final_status = "resolved" =>
                  output.final_response = state.response)
    /\ [][Entered("Routing") = 1 => state'.response = state.response]_vars

C30_Witness ==
    /\ pc = "Returned"
    /\ output.final_status = "escalated"
    /\ "resolution_llm" \notin failed
    /\ state.response = <<"Your", "refund", "will", "arrive", "in", "5", "days">>
    /\ output.final_response = <<"We", "are", "connecting", "you", "with", "a", "specialist">>

====
